---------------------------- MODULE Spec2Model ----------------------------
(***************************************************************************)
(* Model of backend/notifications/plugin.py: the notification context      *)
(* records, the Feature enumeration and BaseNotificationPlugin with its    *)
(* default text rendering.                                                 *)
(*                                                                         *)
(* A Python str is a finite sequence of atoms.  An atom stands for a run   *)
(* of characters that the code never splits: a word of a literal, a blank, *)
(* a line feed ("\n"), or a non-ASCII character written by its code point  *)
(* ("U+2705").  Concatenation is \o, "s in t" is Contains(t, s) and        *)
(* t.endswith(s) is EndsWith(t, s).                                        *)
(*                                                                         *)
(* A Python value is a record tagged with its type, so that None, the      *)
(* empty str and the empty dict stay different values.  A call either      *)
(* returns a value or raises an exception class: Return(v) / Raise(e).     *)
(***************************************************************************)
EXTENDS Integers, Sequences, FiniteSets, TLC

\* ------------------------------------------------------------- bounds ----

\* Longest printer name / file name, in atoms, that a context is built with.
MaxLen == 1

\* ------------------------------------------------------- Python values ----

None == [type |-> "NoneType"]
StrV(s) == [type |-> "str", v |-> s]
DictV(d) == [type |-> "dict", v |-> d]
SetV(S) == [type |-> "set", v |-> S]

Return(v) == [raised |-> FALSE, value |-> v]
Raise(e) == [raised |-> TRUE, exc |-> e]

\* s in t, for two str
Contains(t, s) ==
    \E k \in 0..(Len(t) - Len(s)) : SubSeq(t, k + 1, k + Len(s)) = s

\* t.endswith(s)
EndsWith(t, s) ==
    /\ Len(s) <= Len(t)
    /\ SubSeq(t, Len(t) - Len(s) + 1, Len(t)) = s

\* The decimal digits of a natural number, most significant first.
RECURSIVE Digits(_)
Digits(n) ==
    IF n < 10
    THEN << <<"0", "1", "2", "3", "4", "5", "6", "7", "8", "9">>[n + 1] >>
    ELSE Digits(n \div 10) \o Digits(n % 10)

\* A str() that loses the sign of a negative number.
str_DropsSign(n) == IF n < 0 THEN Digits(0 - n) ELSE Digits(n)

\* str(n) of an int, as line 179 and line 184 apply it to heater_actual.
str(n) == IF n < 0 THEN <<"-">> \o Digits(0 - n) ELSE Digits(n)

\* A truth test that only asks "is not None".
Truthy_IsNotNone(x) == x.type # "NoneType"

\* bool(x) of an Optional[str]: None and '' are false (the test of line 150).
Truthy(x) == x.type = "str" /\ Len(x.v) > 0

\* A lookup that defaults instead of failing, as d.get(k, default) would.
getitem_Defaulting(d, k) ==
    IF k \in DOMAIN d THEN Return(d[k])
    ELSE Return(IF k = "heater_actual" THEN 0 ELSE <<>>)

\* d[k] of a dict: the value, or KeyError when k is not a key.
getitem(d, k) == IF k \in DOMAIN d THEN Return(d[k]) ELSE Raise("KeyError")

\* --------------------------------------------- notification_types ----
\* The event-type registry that line 6 imports: eight string constants.

PrintStarted == "PrintStarted"
PrintDone == "PrintDone"
PrintCancelled == "PrintCancelled"
PrintPaused == "PrintPaused"
PrintResumed == "PrintResumed"
FilamentChange == "FilamentChange"
HeaterCooledDown == "HeaterCooledDown"
HeaterTargetReached == "HeaterTargetReached"

\* ------------------------------------------------------------ Feature ----

\* The eight lines of the class body, in order: name and value. The last
\* three lines end in a comma, which makes their value a 1-tuple.
FeatureDecl_CopyPaste ==
    << <<"notify_on_failure_alert", <<"str", "notify_on_failure_alert">> >>,
       <<"notify_on_print_done", <<"str", "notify_on_print_done">> >>,
       <<"notify_on_print_cancelled", <<"str", "notify_on_print_cancelled">> >>,
       <<"notify_on_filament_change", <<"str", "notify_on_filament_change">> >>,
       <<"notify_on_heater_status", <<"str", "notify_on_heater_status">> >>,
       <<"notify_on_print_start", <<"tuple", "notify_on_print_start">> >>,
       <<"notify_on_print_pause", <<"tuple", "notify_on_print_start">> >>,
       <<"notify_on_print_resume", <<"tuple", "notify_on_print_resume">> >> >>

FeatureDecl ==
    << <<"notify_on_failure_alert", <<"str", "notify_on_failure_alert">> >>,
       <<"notify_on_print_done", <<"str", "notify_on_print_done">> >>,
       <<"notify_on_print_cancelled", <<"str", "notify_on_print_cancelled">> >>,
       <<"notify_on_filament_change", <<"str", "notify_on_filament_change">> >>,
       <<"notify_on_heater_status", <<"str", "notify_on_heater_status">> >>,
       <<"notify_on_print_start", <<"tuple", "notify_on_print_start">> >>,
       <<"notify_on_print_pause", <<"tuple", "notify_on_print_pause">> >>,
       <<"notify_on_print_resume", <<"tuple", "notify_on_print_resume">> >> >>

\* enum.Enum: a name whose value an earlier line already has is an alias of
\* that earlier member, not a member of its own.
FeatureMember(name) ==
    LET i == CHOOSE i \in 1..Len(FeatureDecl) : FeatureDecl[i][1] = name
        j == CHOOSE j \in 1..i :
                 /\ FeatureDecl[j][2] = FeatureDecl[i][2]
                 /\ \A k \in 1..(j - 1) : FeatureDecl[k][2] # FeatureDecl[i][2]
    IN  [name |-> FeatureDecl[j][1], value |-> FeatureDecl[j][2]]

\* list(Feature): the members of the enumeration.
Feature == { FeatureMember(FeatureDecl[i][1]) : i \in 1..Len(FeatureDecl) }

\* ----------------------------------------------------------- contexts ----
\* Only the fields that BaseNotificationPlugin reads, or that a claim is
\* about, are kept: PrinterContext.name and pause_on_failure,
\* PrintContext.filename and alert_overwrite, extra_context, is_warning,
\* print_paused, feature, notification_type.

NameAtoms == {"Ender3", "vase.gcode"}

RECURSIVE SeqsUpTo(_, _)
SeqsUpTo(S, n) ==
    IF n = 0 THEN {<<>>}
    ELSE LET shorter == SeqsUpTo(S, n - 1)
         IN  shorter \cup { Append(s, a) : s \in shorter, a \in S }

Names == SeqsUpTo(NameAtoms, MaxLen)

PrinterContext == [name : Names, pause_on_failure : BOOLEAN]

AlertOverwrites == {<<>>, <<"NOT_FAILED">>}

PrintContext == [filename : Names, alert_overwrite : AlertOverwrites]

HeaterNames == {<<>>, <<"bed">>, <<"tool0">>}
HeaterActuals == {-5, 0, 60, 215}

\* extra_context: a dict that may hold heater_name, heater_actual, both or
\* neither.
ExtraContexts ==
    LET names == { [k \in {"heater_name"} |-> n] : n \in HeaterNames }
        temps == { [k \in {"heater_actual"} |-> t] : t \in HeaterActuals }
    IN  {<<>>} \cup names \cup temps
        \cup { [k \in {"heater_name", "heater_actual"} |->
                   IF k = "heater_name" THEN n ELSE t] :
               n \in HeaterNames, t \in HeaterActuals }

FailureAlertContext ==
    [kind : {"FailureAlertContext"}, printer : PrinterContext,
     print : PrintContext, extra_context : {<<>>},
     is_warning : BOOLEAN, print_paused : BOOLEAN]

\* notification_type is any str: the eight of the registry and three that
\* are not ('' and a wrong case among them).
NotificationTypes ==
    {PrintStarted, PrintDone, PrintCancelled, PrintPaused, PrintResumed,
     FilamentChange, HeaterCooledDown, HeaterTargetReached,
     "", "printdone", "PrintFailed"}

PrinterNotificationContext ==
    [kind : {"PrinterNotificationContext"}, printer : PrinterContext,
     print : [filename : Names, alert_overwrite : {<<>>}],
     extra_context : ExtraContexts,
     feature : Feature, notification_type : NotificationTypes]

TestMessageContext ==
    [kind : {"TestMessageContext"}, extra_context : {<<>>}]

NoContext == [kind |-> "none"]

\* The link argument of get_failure_alert_text: None (the default) or a str.
Links == {None, StrV(<<>>), StrV(<<"https://app/printers/1">>)}

\* Arguments of validate_config.
Configs == {<<>>, [k \in {"a"} |-> 1], [k \in {"a", "b"} |-> 0]}

\* Arguments of i, b and u.
Texts == Names \cup {<<"x">>, <<"*", "x", "*">>}

\* ------------------------------------------- BaseNotificationPlugin ----

\* line 85
validate_config(data) == Return(DictV(data))

\* A send that is an empty body and returns None.
send_ReturnsNone(context) == Return(None)

\* line 88
send_failure_alert(context) == Raise("NotImplementedError")

\* line 91
send_printer_notification(context) == Raise("NotImplementedError")

\* line 94
send_test_message(context) == Raise("NotImplementedError")

\* line 97: a set display of the eight names of Feature.
supported_features ==
    { FeatureMember("notify_on_failure_alert"),
      FeatureMember("notify_on_print_done"),
      FeatureMember("notify_on_print_cancelled"),
      FeatureMember("notify_on_filament_change"),
      FeatureMember("notify_on_heater_status"),
      FeatureMember("notify_on_print_start"),
      FeatureMember("notify_on_print_pause"),
      FeatureMember("notify_on_print_resume") }

\* line 109
env_vars == <<>>

\* line 115
i(s) == s

\* A bold that adds Markdown markers.
b_Markdown(s) == <<"*">> \o s \o <<"*">>

\* line 119
b(s) == s

\* line 123
u(s) == s

\* line 127
get_failure_alert_title == <<"Obico", " ", "-", " ", "Failure", " ", "alert!">>

\* A failure text that is replaced by print.alert_overwrite when that is set.
get_failure_alert_text_Overwritten(context, link) ==
    IF Len(context.print.alert_overwrite) > 0
    THEN context.print.alert_overwrite
    ELSE b(context.printer.name) \o <<" ">>
         \o (IF context.is_warning
             THEN <<"Warning", " ", "U+26A0", "\n">>
             ELSE <<"Failure", " ", "Alert", " ", "U+1F6D1", "\n">>)
         \o (IF context.print_paused
             THEN <<"Printer", " ", "is", " ", "paused.">>
             ELSE IF context.printer.pause_on_failure /\ context.is_warning
                  THEN <<"Printer", " ", "is", " ", "NOT", " ", "paused.">>
                  ELSE <<>>)
         \o <<"Print job", " ">> \o b(context.print.filename)
         \o <<" ", "\n", "\n">>
         \o (IF Truthy(link)
             THEN <<"\n", "Go check it at:", " ">> \o link.v
             ELSE <<>>)

\* line 135
get_failure_alert_text(context, link) ==
    LET text1 == b(context.printer.name) \o <<" ">>
        text2 == text1 \o
                 (IF context.is_warning
                  THEN <<"Warning", " ", "U+26A0", "\n">>
                  ELSE <<"Failure", " ", "Alert", " ", "U+1F6D1", "\n">>)
        text3 == text2 \o
                 (IF context.print_paused
                  THEN <<"Printer", " ", "is", " ", "paused.">>
                  ELSE IF context.printer.pause_on_failure /\ context.is_warning
                       THEN <<"Printer", " ", "is", " ", "NOT", " ", "paused.">>
                       ELSE <<>>)
        text4 == text3 \o <<"Print job", " ">> \o b(context.print.filename)
                 \o <<" ", "\n", "\n">>
    IN  IF Truthy(link)
        THEN text4 \o <<"\n", "Go check it at:", " ">> \o link.v
        ELSE text4

\* line 155
get_printer_notification_title ==
    <<"Obico", " ", "-", " ", "Print", " ", "job", " ", "notification">>

\* The body of get_printer_notification_text with one slip, named by bug:
\*   "falls_through"  the final else does not return '' but goes on to the
\*                    file name line;
\*   "no_resumed"     the PrintResumed branch is missing;
\*   "paused_resumed" the PrintPaused branch carries the PrintResumed phrase.
PrinterNotificationText_Slip(context, bug) ==
    LET notification_type == context.notification_type
        extra_context == context.extra_context
        text == b(context.printer.name) \o <<" ">>
        rest(t) == Return(t \o <<"\n">> \o <<"Print job", " ">>
                            \o b(context.print.filename))
        heater(verb) ==
            LET heater_name == getitem(extra_context, "heater_name")
                heater_actual == getitem(extra_context, "heater_actual")
            IN  IF heater_name.raised THEN heater_name
                ELSE IF heater_actual.raised THEN heater_actual
                ELSE rest(text \o <<"\n", "Heater", " ">>
                          \o b(heater_name.value) \o <<" ">> \o verb \o <<" ">>
                          \o b(str(heater_actual.value) \o <<"U+2103">>)
                          \o <<" ">>)
    IN  IF notification_type = PrintStarted
        THEN rest(text \o <<"Started", " ", "U+2600">>)
        ELSE IF notification_type = PrintDone
        THEN rest(text \o <<"Completed", " ", "U+2705">>)
        ELSE IF notification_type = PrintCancelled
        THEN rest(text \o <<"Canceled", " ", "U+274C">>)
        ELSE IF notification_type = PrintPaused
        THEN (IF bug = "paused_resumed"
              THEN rest(text \o <<"Resumed", " ", "U+25B6">>)
              ELSE rest(text \o <<"Paused", " ", "U+23F8">>))
        ELSE IF notification_type = PrintResumed /\ bug # "no_resumed"
        THEN rest(text \o <<"Resumed", " ", "U+25B6">>)
        ELSE IF notification_type = FilamentChange
        THEN rest(text \o <<"requires", " ", "filament", " ", "change", " ",
                           "U+267B">>)
        ELSE IF notification_type = HeaterCooledDown
        THEN heater(<<"has", " ", "cooled", " ", "down", " ", "to">>)
        ELSE IF notification_type = HeaterTargetReached
        THEN heater(<<"has", " ", "reached", " ", "target", " ",
                      "temperature">>)
        ELSE IF bug = "falls_through" THEN rest(text) ELSE Return(<<>>)

get_printer_notification_text_FallsThrough(context) ==
    PrinterNotificationText_Slip(context, "falls_through")

get_printer_notification_text_NoResumed(context) ==
    PrinterNotificationText_Slip(context, "no_resumed")

get_printer_notification_text_PausedResumed(context) ==
    PrinterNotificationText_Slip(context, "paused_resumed")

\* line 158. The two subscripts of a heater branch are evaluated left to
\* right inside the f-string: heater_name first, then heater_actual.
get_printer_notification_text(context) ==
    LET notification_type == context.notification_type
        extra_context == context.extra_context
        text == b(context.printer.name) \o <<" ">>
        \* lines 189-193: the part after the if chain
        rest(t) == Return(t \o <<"\n">> \o <<"Print job", " ">>
                            \o b(context.print.filename))
        \* lines 177-180 and 182-185, which differ in the verb only
        heater(verb) ==
            LET heater_name == getitem(extra_context, "heater_name")
                heater_actual == getitem(extra_context, "heater_actual")
            IN  IF heater_name.raised THEN heater_name
                ELSE IF heater_actual.raised THEN heater_actual
                ELSE rest(text \o <<"\n", "Heater", " ">>
                          \o b(heater_name.value) \o <<" ">> \o verb \o <<" ">>
                          \o b(str(heater_actual.value) \o <<"U+2103">>)
                          \o <<" ">>)
    IN  IF notification_type = PrintStarted
        THEN rest(text \o <<"Started", " ", "U+2600">>)
        ELSE IF notification_type = PrintDone
        THEN rest(text \o <<"Completed", " ", "U+2705">>)
        ELSE IF notification_type = PrintCancelled
        THEN rest(text \o <<"Canceled", " ", "U+274C">>)
        ELSE IF notification_type = PrintPaused
        THEN rest(text \o <<"Paused", " ", "U+23F8">>)
        ELSE IF notification_type = PrintResumed
        THEN rest(text \o <<"Resumed", " ", "U+25B6">>)
        ELSE IF notification_type = FilamentChange
        THEN rest(text \o <<"requires", " ", "filament", " ", "change", " ",
                           "U+267B">>)
        ELSE IF notification_type = HeaterCooledDown
        THEN heater(<<"has", " ", "cooled", " ", "down", " ", "to">>)
        ELSE IF notification_type = HeaterTargetReached
        THEN heater(<<"has", " ", "reached", " ", "target", " ",
                      "temperature">>)
        ELSE Return(<<>>)

\* ------------------------------------------------------ state machine ----
\* One dispatch: the caller builds a context, then makes one call on the
\* plugin with it; the helpers that take no context are called on the
\* plugin directly.

VARIABLES
    context,    \* the context the caller built, or NoContext
    pc,         \* "idle", "ready" (a context is built), "returned", "raised"
    op,         \* the method called, "" before the call
    arg,        \* the argument besides the context, None if there is none
    result,     \* the value returned, None if the call raised
    exc         \* the exception class raised, "" if none

vars == <<context, pc, op, arg, result, exc>>

Init ==
    /\ context = NoContext
    /\ pc = "idle"
    /\ op = ""
    /\ arg = None
    /\ result = None
    /\ exc = ""

BuildFailureAlertContext ==
    /\ pc = "idle"
    /\ context' \in FailureAlertContext
    /\ pc' = "ready"
    /\ UNCHANGED <<op, arg, result, exc>>

BuildPrinterNotificationContext ==
    /\ pc = "idle"
    /\ context' \in PrinterNotificationContext
    /\ pc' = "ready"
    /\ UNCHANGED <<op, arg, result, exc>>

BuildTestMessageContext ==
    /\ pc = "idle"
    /\ context' \in TestMessageContext
    /\ pc' = "ready"
    /\ UNCHANGED <<op, arg, result, exc>>

\* The call `name` with argument a ends as `outcome` says. No method of the
\* class assigns to the plugin or to the (frozen) context.
Finish(name, a, outcome) ==
    /\ op' = name
    /\ arg' = a
    /\ pc' = IF outcome.raised THEN "raised" ELSE "returned"
    /\ result' = IF outcome.raised THEN None ELSE outcome.value
    /\ exc' = IF outcome.raised THEN outcome.exc ELSE ""
    /\ UNCHANGED context

\* The send methods take whatever context they are handed.
SendFailureAlert ==
    /\ pc = "ready"
    /\ Finish("send_failure_alert", None, send_failure_alert(context))

SendPrinterNotification ==
    /\ pc = "ready"
    /\ Finish("send_printer_notification", None,
              send_printer_notification(context))

SendTestMessage ==
    /\ pc = "ready"
    /\ Finish("send_test_message", None, send_test_message(context))

GetFailureAlertTitle ==
    /\ pc = "ready"
    /\ context.kind = "FailureAlertContext"
    /\ Finish("get_failure_alert_title", None,
              Return(StrV(get_failure_alert_title)))

GetFailureAlertText ==
    /\ pc = "ready"
    /\ context.kind = "FailureAlertContext"
    /\ \E link \in Links :
           Finish("get_failure_alert_text", link,
                  Return(StrV(get_failure_alert_text(context, link))))

GetPrinterNotificationTitle ==
    /\ pc = "ready"
    /\ context.kind = "PrinterNotificationContext"
    /\ Finish("get_printer_notification_title", None,
              Return(StrV(get_printer_notification_title)))

GetPrinterNotificationText ==
    /\ pc = "ready"
    /\ context.kind = "PrinterNotificationContext"
    /\ LET r == get_printer_notification_text(context)
       IN  Finish("get_printer_notification_text", None,
                  IF r.raised THEN r ELSE Return(StrV(r.value)))

ValidateConfig ==
    /\ pc = "idle"
    /\ \E data \in Configs :
           Finish("validate_config", DictV(data), validate_config(data))

SupportedFeatures ==
    /\ pc = "idle"
    /\ Finish("supported_features", None, Return(SetV(supported_features)))

EnvVars ==
    /\ pc = "idle"
    /\ Finish("env_vars", None, Return(DictV(env_vars)))

Italic ==
    /\ pc = "idle"
    /\ \E s \in Texts : Finish("i", StrV(s), Return(StrV(i(s))))

Bold ==
    /\ pc = "idle"
    /\ \E s \in Texts : Finish("b", StrV(s), Return(StrV(b(s))))

Underline ==
    /\ pc = "idle"
    /\ \E s \in Texts : Finish("u", StrV(s), Return(StrV(u(s))))

Next ==
    \/ BuildFailureAlertContext
    \/ BuildPrinterNotificationContext
    \/ BuildTestMessageContext
    \/ SendFailureAlert
    \/ SendPrinterNotification
    \/ SendTestMessage
    \/ GetFailureAlertTitle
    \/ GetFailureAlertText
    \/ GetPrinterNotificationTitle
    \/ GetPrinterNotificationText
    \/ ValidateConfig
    \/ SupportedFeatures
    \/ EnvVars
    \/ Italic
    \/ Bold
    \/ Underline

Spec == Init /\ [][Next]_vars

\* ------------------------------------------------------------- claims ----
\* Vocabulary of the claims, written from their wording and not from the
\* code: the registry's known set, and what each text is expected to be.

KnownTypes ==
    {"PrintStarted", "PrintDone", "PrintCancelled", "PrintPaused",
     "PrintResumed", "FilamentChange", "HeaterCooledDown",
     "HeaterTargetReached"}

HeaterTypes == {"HeaterCooledDown", "HeaterTargetReached"}

HeaterKeys == {"heater_name", "heater_actual"}

\* The decimal numeral of each temperature a context is built with.
Numeral(n) ==
    CASE n = -5 -> <<"-", "5">>
      [] n = 0 -> <<"0">>
      [] n = 60 -> <<"6", "0">>
      [] n = 215 -> <<"2", "1", "5">>

CalledText == op = "get_printer_notification_text"

CalledAlert == op = "get_failure_alert_text"

\* The phrase the claims give each known event type.
ExpectedPhrase(type, extra) ==
    CASE type = "PrintStarted" -> <<"Started", " ", "U+2600">>
      [] type = "PrintDone" -> <<"Completed", " ", "U+2705">>
      [] type = "PrintCancelled" -> <<"Canceled", " ", "U+274C">>
      [] type = "PrintPaused" -> <<"Paused", " ", "U+23F8">>
      [] type = "PrintResumed" -> <<"Resumed", " ", "U+25B6">>
      [] type = "FilamentChange" ->
             <<"requires", " ", "filament", " ", "change", " ", "U+267B">>
      [] type = "HeaterCooledDown" ->
             <<"\n", "Heater", " ">> \o extra["heater_name"]
             \o <<" ", "has", " ", "cooled", " ", "down", " ", "to", " ">>
             \o Numeral(extra["heater_actual"]) \o <<"U+2103", " ">>
      [] type = "HeaterTargetReached" ->
             <<"\n", "Heater", " ">> \o extra["heater_name"]
             \o <<" ", "has", " ", "reached", " ", "target", " ",
                  "temperature", " ">>
             \o Numeral(extra["heater_actual"]) \o <<"U+2103", " ">>

\* The failure text as the claim lists its parts; withLink says whether the
\* "Go check it at" sentence is expected.
ExpectedAlert(c, link, withLink) ==
    c.printer.name \o <<" ">>
    \o (IF c.is_warning
        THEN <<"Warning", " ", "U+26A0", "\n">>
        ELSE <<"Failure", " ", "Alert", " ", "U+1F6D1", "\n">>)
    \o (IF c.print_paused
        THEN <<"Printer", " ", "is", " ", "paused.">>
        ELSE IF c.printer.pause_on_failure /\ c.is_warning
             THEN <<"Printer", " ", "is", " ", "NOT", " ", "paused.">>
             ELSE <<>>)
    \o <<"Print job", " ">> \o c.print.filename \o <<" ", "\n", "\n">>
    \o (IF withLink
        THEN <<"\n", "Go check it at:", " ">> \o link.v
        ELSE <<>>)

\* C1: for a notification_type outside the eight registry values,
\* get_printer_notification_text returns exactly the empty string and raises
\* nothing, whatever the printer name, the file name and extra_context are.
C1_UnknownTypeGivesEmpty ==
    (CalledText /\ context.notification_type \notin KnownTypes)
        => /\ pc = "returned"
           /\ exc = ""
           /\ result = StrV(<<>>)

\* An unknown type rendered for a named printer and an extra_context
\* without heater keys.
C1_Witness ==
    /\ CalledText
    /\ context.notification_type = "PrintFailed"
    /\ DOMAIN context.extra_context = {}
    /\ context.printer.name = <<"Ender3">>
    /\ result = StrV(<<>>)

\* C2: for each of the six known event types that are not heater events the
\* text returned is not empty and contains the printer's name and the
\* print's file name.
C2_NonHeaterHasNameAndFile ==
    (CalledText /\ context.notification_type \in KnownTypes \ HeaterTypes)
        => /\ pc = "returned"
           /\ result.type = "str"
           /\ Len(result.v) > 0
           /\ Contains(result.v, context.printer.name)
           /\ Contains(result.v, context.print.filename)

\* A PrintResumed text that shows a non-empty name and a different,
\* non-empty file name.
C2_Witness ==
    /\ CalledText
    /\ context.notification_type = "PrintResumed"
    /\ context.printer.name = <<"Ender3">>
    /\ context.print.filename = <<"vase.gcode">>
    /\ pc = "returned"
    /\ Contains(result.v, <<"Ender3">>)
    /\ Contains(result.v, <<"vase.gcode">>)

\* C3: for a heater event whose extra_context holds heater_name and
\* heater_actual the text contains the heater name and the decimal numeral
\* of the temperature, and it ends as every known event's text ends: a line
\* feed, then the "Print job" label with the print's file name.
C3_HeaterTextHasNameAndTemperature ==
    (/\ CalledText
     /\ context.notification_type \in HeaterTypes
     /\ HeaterKeys \subseteq DOMAIN context.extra_context)
        => /\ pc = "returned"
           /\ result.type = "str"
           /\ Contains(result.v, context.extra_context["heater_name"])
           /\ Contains(result.v,
                       Numeral(context.extra_context["heater_actual"]))
           /\ EndsWith(result.v, <<"\n", "Print job", " ">>
                                 \o context.print.filename)

\* A cooled-down text for heater "bed" at -5 degrees.
C3_Witness ==
    /\ CalledText
    /\ context.notification_type = "HeaterCooledDown"
    /\ HeaterKeys \subseteq DOMAIN context.extra_context
    /\ context.extra_context["heater_name"] = <<"bed">>
    /\ context.extra_context["heater_actual"] = -5
    /\ context.print.filename = <<"vase.gcode">>
    /\ pc = "returned"
    /\ Contains(result.v, <<"bed">>)
    /\ Contains(result.v, <<"-", "5">>)

\* C4: get_printer_notification_text raises, and then raises KeyError, if
\* and only if the type is a heater event and extra_context lacks
\* heater_name or heater_actual; in every other case it returns a str, also
\* when extra_context is empty.
C4_KeyErrorIffHeaterKeyMissing ==
    CalledText
        => /\ (pc = "raised") <=>
                  /\ context.notification_type \in HeaterTypes
                  /\ ~(HeaterKeys \subseteq DOMAIN context.extra_context)
           /\ pc = "raised" => exc = "KeyError" /\ result = None
           /\ pc # "raised" =>
                  pc = "returned" /\ exc = "" /\ result.type = "str"

\* A target-reached event whose extra_context has the heater's name but not
\* its temperature.
C4_Witness ==
    /\ CalledText
    /\ context.notification_type = "HeaterTargetReached"
    /\ DOMAIN context.extra_context = {"heater_name"}
    /\ pc = "raised"
    /\ exc = "KeyError"

\* C5 as stated: the failure text is the printer name, the warning or the
\* "Failure Alert" line, "Printer is paused." if print_paused and otherwise
\* "Printer is NOT paused." only for a warning on a pause_on_failure
\* printer, the file name, and the "Go check it at" sentence with the link
\* if and only if a link is supplied (is not None).
C5_AsStated ==
    CalledAlert
        => /\ pc = "returned"
           /\ result = StrV(ExpectedAlert(context, arg, arg # None))

\* C5 amended: the same, with the "Go check it at" sentence if and only if
\* the link supplied is a non-empty string; an empty link is treated as no
\* link.
C5_FailureAlertText ==
    CalledAlert
        => /\ pc = "returned"
           /\ result = StrV(ExpectedAlert(context, arg,
                                          arg # None /\ arg # StrV(<<>>)))

\* A warning on a running pause_on_failure printer, called with link ''.
C5_Witness ==
    /\ CalledAlert
    /\ arg = StrV(<<>>)
    /\ context.is_warning
    /\ context.printer.pause_on_failure
    /\ ~context.print_paused
    /\ Contains(result.v, <<"NOT", " ", "paused.">>)
    /\ ~Contains(result.v, <<"Go check it at:">>)

\* C6: each send method of the base plugin, with any context, ends in
\* NotImplementedError: it never returns a value, the step that raises is
\* the whole call (nothing is retried), and the call leaves the context it
\* was handed as it was.
C6_SendsRaiseNotImplemented ==
    /\ [](op \in {"send_failure_alert", "send_printer_notification",
                  "send_test_message"}
              => /\ pc = "raised"
                 /\ exc = "NotImplementedError"
                 /\ result = None)
    /\ [][op' \in {"send_failure_alert", "send_printer_notification",
                   "send_test_message"}
              => /\ pc' = "raised"
                 /\ context' = context
                 /\ context # NoContext]_vars

\* send_test_message called with a FailureAlertContext.
C6_Witness ==
    /\ op = "send_test_message"
    /\ context.kind = "FailureAlertContext"
    /\ pc = "raised"

\* C7: supported_features() returns a set of exactly eight distinct Feature
\* members, the whole enumeration under its eight names, so that every
\* Feature is in it.
C7_SupportedFeaturesIsAllEight ==
    op = "supported_features"
        => /\ pc = "returned"
           /\ result.type = "set"
           /\ Cardinality(result.v) = 8
           /\ result.v = Feature
           /\ { f.name : f \in result.v } =
                  {"notify_on_failure_alert", "notify_on_print_done",
                   "notify_on_print_cancelled", "notify_on_filament_change",
                   "notify_on_heater_status", "notify_on_print_start",
                   "notify_on_print_pause", "notify_on_print_resume"}
           /\ \A f \in Feature : f \in result.v

\* supported_features() has returned, with notify_on_print_pause in the set.
C7_Witness ==
    /\ op = "supported_features"
    /\ pc = "returned"
    /\ \E f \in result.v : f.name = "notify_on_print_pause"

\* C8: validate_config returns its argument unchanged and never raises;
\* i, b and u return their argument unchanged.
C8_PassthroughsAreIdentity ==
    op \in {"validate_config", "i", "b", "u"}
        => /\ pc = "returned"
           /\ exc = ""
           /\ result = arg

\* b applied to a string that already carries markers.
C8_Witness ==
    /\ op = "b"
    /\ arg = StrV(<<"*", "x", "*">>)
    /\ pc = "returned"

\* C9 as stated: with alert_overwrite set, the failure text differs from
\* the text generated from is_warning / print_paused.
C9_AsStated ==
    (CalledAlert /\ Len(context.print.alert_overwrite) > 0)
        => result.v # get_failure_alert_text(
                          [context EXCEPT !.print.alert_overwrite = <<>>], arg)

\* C9 amended: get_failure_alert_text does not read alert_overwrite: with it
\* set, the text is the one generated for the same context without it, and
\* is not the override.
C9_OverwriteIsIgnored ==
    (CalledAlert /\ Len(context.print.alert_overwrite) > 0)
        => /\ pc = "returned"
           /\ result.v = get_failure_alert_text(
                             [context EXCEPT !.print.alert_overwrite = <<>>],
                             arg)
           /\ result.v # context.print.alert_overwrite

\* A failure alert of a paused print rendered with alert_overwrite set.
C9_Witness ==
    /\ CalledAlert
    /\ context.print.alert_overwrite = <<"NOT_FAILED">>
    /\ context.print_paused
    /\ Contains(result.v, <<"Printer", " ", "is", " ", "paused.">>)

\* C10: each known event type is rendered with its own phrase: the text is
\* the printer name, a blank, the phrase of that type, a line feed and the
\* "Print job" label with the file name; and for the same context no other
\* known type renders the same text.
C10_EachTypeItsOwnPhrase ==
    (CalledText /\ context.notification_type \in KnownTypes
                /\ pc = "returned")
        => /\ result.v =
                  context.printer.name \o <<" ">>
                  \o ExpectedPhrase(context.notification_type,
                                    context.extra_context)
                  \o <<"\n", "Print job", " ">> \o context.print.filename
           /\ \A other \in KnownTypes \ {context.notification_type} :
                  LET r == get_printer_notification_text(
                               [context EXCEPT !.notification_type = other])
                  IN  r.raised \/ r.value # result.v

\* A PrintPaused text, which says "Paused".
C10_Witness ==
    /\ CalledText
    /\ context.notification_type = "PrintPaused"
    /\ pc = "returned"
    /\ Contains(result.v, <<"Paused">>)
    /\ ~Contains(result.v, <<"Resumed">>)

=============================================================================
